---- MODULE Spec2Model ----
(***************************************************************************)
(* Layered soil-water accounting of pyfao56 (LIRF features):               *)
(*   SoilWaterContent  (src/src/pyfao56/tools/soil_water_content.py)       *)
(*   SoilWaterDeficit  (src/src/pyfao56/tools/soil_water_deficit.py)       *)
(*                                                                         *)
(* Numbers.  The code computes with floats; the model keeps them exact as  *)
(* integers in fixed units:                                                *)
(*   fractions (water content, field capacity, deficit): thousandths;      *)
(*   layer bottom depths: whole centimeters (the integer index);           *)
(*   root depths Zr, Zrmax: millimeters (meters * 1000), so that the       *)
(*     centimeter value Zr*100 of the code is Zr/10 here and               *)
(*     "cm_inc <= Zr" is "cm_inc * 10 <= Zr";                              *)
(*   water depths (SWDr, SWDrmax, TAW, RAW): thousandths of a millimeter,  *)
(*     so that "swd * 10 #mm" of the code is "swd * 10" here.              *)
(* NaN is a value of its own: arithmetic with it gives NaN and every       *)
(* comparison with it is false, as for floats.                             *)
(*                                                                         *)
(* A date key 'YYYY-DOY' is the pair <<YYYY, DOY>>.                        *)
(*                                                                         *)
(* Files.  SoilWater (src/src/pyfao56/soil_water.py) and the savefile and  *)
(* loadfile methods of the three classes are modelled on the text of the   *)
(* files, token by token, under the specification SpecIO; each class       *)
(* works on its default filepath.  The values of a SoilWater profile are   *)
(* in millionths and its depths in millimeters.                            *)
(***************************************************************************)
EXTENDS Integers, Sequences, FiniteSets, TLC

VARIABLES
    swcdata,    \* swc.swcdata, the frame of the SoilWaterContent object
    swddata,    \* swd.swddata, the frame of the SoilWaterDeficit object
    rzdata,     \* swd.rzdata: None, or the rows of the root-zone frame
    sdata,      \* sol.sdata['thetaFC'] of the sol argument of the last
                \* compute_swd_from_swc call
    op,         \* the operation that ran last
    err,        \* the exception the last operation raised, "none" if none
    mdl,        \* the mdl argument of the last compute_root_zone_swd call
    pre,        \* swc.swcdata as it was when the last compute_swd_from_swc began
    orig,       \* the frame the last customload gave to swc
    locals,     \* the dicts SWDr and SWDrmax of the last compute_root_zone_swd
                \* call, as they were when the call ended
    rzbefore,   \* the dates of the rows rzdata had when the last
                \* compute_root_zone_swd call began
    ncalls,     \* how many compute_swd_from_swc calls in a row, with the same
                \* sol, have run right after that customload (0 once another
                \* operation came between)
    nops,       \* operations run so far
    swater,     \* the SoilWater object
    fs,         \* the files: the text at each path
    written,    \* for each path, the frame or object whose savefile wrote
                \* the text that is there
    printed,    \* what the last operation printed
    args        \* the arguments of the last SoilWater(...) call

ioVars == <<swater, fs, written, args>>

vars == <<swcdata, swddata, rzdata, sdata, op, err, mdl, locals, rzbefore, pre,
          orig, ncalls, nops, swater, fs, written, printed, args>>

---------------------------------------------------------------------------
\* Bounds of the model.

\* Operations in one run.
MaxOps == 3

\* Consecutive compute_swd_from_swc calls that are counted.
MaxCalls == 2

---------------------------------------------------------------------------
\* Floats.

NaN == 0 - 1000000

IsNum(a) == a # NaN

FSub(a, b) == IF a = NaN \/ b = NaN THEN NaN ELSE a - b

FAdd(a, b) == IF a = NaN \/ b = NaN THEN NaN ELSE a + b

FMul(a, k) == IF a = NaN THEN NaN ELSE a * k

FLe(a, b) == a # NaN /\ b # NaN /\ a <= b

\* Series.clip(lower=0): NaN stays NaN.
Clip0(a) == IF a = NaN THEN NaN ELSE IF a < 0 THEN 0 ELSE a

Range(s) == {s[i] : i \in 1..Len(s)}

MinOf(S) == CHOOSE x \in S : \A y \in S : x <= y

---------------------------------------------------------------------------
\* Frames: cols is the column labels in order (dates), rows the index labels
\* in order (depths, cm), val[c][r] the cell.

\* pd.DataFrame(columns=cols): the columns, and no row.
NoRows(cols) ==
    [cols |-> cols, rows |-> <<>>, val |-> [c \in Range(cols) |-> <<>>]]

\* pd.DataFrame()
EmptyFrame == NoRows(<<>>)

---------------------------------------------------------------------------
\* compute_swd_from_swc(swc, sol)

\* The column sol.sdata['thetaFC'] aligned on the index idx of the frame:
\* a label of idx that sol does not have gets NaN.
AlignFC(sol, idx) ==
    [r \in Range(idx) |-> IF r \in Range(sol.rows) THEN sol.fc[r] ELSE NaN]

\* The index of the frame after "swddata['thetaFC'] = series": a frame whose
\* index is empty takes the index of the series it is given.
IndexAfterSet(df, sol) ==
    IF Len(df.rows) = 0 /\ Len(sol.rows) > 0 THEN sol.rows ELSE df.rows

\* Variant of DeficitOf without the clip.
DeficitOfNoClip(fc, v) == FSub(fc, v)

\* One date column: (thetaFC - column).clip(lower=0)
DeficitOf(fc, v) == Clip0(FSub(fc, v))

\* The frame the call leaves in the object it works on: the thetaFC column is
\* added, every date column is replaced by its deficit, and the thetaFC column
\* is dropped.
ToDeficit(df, sol) ==
    LET idx == IndexAfterSet(df, sol)
        fc  == AlignFC(sol, idx)
        old(c, r) == IF r \in Range(df.rows) THEN df.val[c][r] ELSE NaN
        new(c, r) == DeficitOf(fc[r], old(c, r))
    IN  [cols |-> df.cols, rows |-> idx,
         val |-> [c \in Range(df.cols) |-> [r \in Range(idx) |-> new(c, r)]]]

---------------------------------------------------------------------------
\* compute_root_zone_swd(mdl)

\* A model: odata maps the dates of the simulation to [Zr, TAW, RAW], and
\* Zrmax is par.Zrmax.
NoMdl == [odata |-> <<>>, Zrmax |-> 0]

InOdata(m, d) == d \in DOMAIN m.odata

\* rzdata after the merge with mdl.odata[['Zr']]: the dates of swddata that
\* the model has, in the order of the columns of swddata.
RECURSIVE Merged(_, _)
Merged(dates, m) ==
    IF dates = <<>> THEN <<>>
    ELSE IF InOdata(m, Head(dates))
         THEN <<Head(dates)>> \o Merged(Tail(dates), m)
         ELSE Merged(Tail(dates), m)

\* range(1, int(rmax + 1)) with rmax = Zrmax * 100: the last increment.
LastCm(m) == m.Zrmax \div 10

NoLyr == 0

\* Variant of Lyr that falls back to the last row when no depth reaches cm.
LyrOrLast(rows, cm) ==
    LET hits == {i \in 1..Len(rows) : cm <= rows[i]}
    IN  IF rows = <<>> THEN 0
        ELSE IF hits = {} THEN rows[Len(rows)] ELSE rows[MinOf(hits)]

\* [dpth for ... in swdByLyr.keys() if cm_inc <= dpth][0]: the first depth
\* in row order that is at least cm_inc; NoLyr where the list is empty.
Lyr(rows, cm) ==
    LET hits == {i \in 1..Len(rows) : cm <= rows[i]}
    IN  IF hits = {} THEN NoLyr ELSE rows[MinOf(hits)]

\* Zr before its first assignment.
Unbound == 0 - 1

\* Variants of InRootZone: a strict comparison, and the comparison reversed.
InRootZoneStrict(cm, Zr) == cm * 10 < Zr

InRootZoneReversed(cm, Zr) == cm * 10 >= Zr

\* cm_inc <= Zr, Zr in centimeters being Zr (mm) / 10.
InRootZone(cm, Zr) == cm * 10 <= Zr

\* Variant of SweepStep that adds to Drmax only below the root zone.
SweepStepBelow(cm, rows, col, Zr, acc) ==
    LET lyr == Lyr(rows, cm) IN
    IF lyr = NoLyr
    THEN [err |-> "IndexError", Dr |-> acc.Dr, Drmax |-> acc.Drmax]
    ELSE IF Zr = Unbound
    THEN [err |-> "UnboundLocalError", Dr |-> acc.Dr, Drmax |-> acc.Drmax]
    ELSE [err |-> "none",
          Dr |-> IF InRootZone(cm, Zr) THEN FAdd(acc.Dr, FMul(col[lyr], 10))
                                       ELSE acc.Dr,
          Drmax |-> IF InRootZone(cm, Zr) THEN acc.Drmax
                    ELSE FAdd(acc.Drmax, FMul(col[lyr], 10))]

\* The body of the loop for the increment cm: acc holds Dr and Drmax, and
\* err the exception the body raised. col is swdByLyr.
SweepStep(cm, rows, col, Zr, acc) ==
    LET lyr == Lyr(rows, cm) IN
    IF lyr = NoLyr
    THEN [err |-> "IndexError", Dr |-> acc.Dr, Drmax |-> acc.Drmax]
    ELSE IF Zr = Unbound
    THEN [err |-> "UnboundLocalError", Dr |-> acc.Dr, Drmax |-> acc.Drmax]
    ELSE [err |-> "none",
          Dr |-> IF InRootZone(cm, Zr) THEN FAdd(acc.Dr, FMul(col[lyr], 10))
                                       ELSE acc.Dr,
          Drmax |-> FAdd(acc.Drmax, FMul(col[lyr], 10))]

\* for cm_inc in range(1, int(rmax + 1)), from the increment cm on.
RECURSIVE SweepLoop(_, _, _, _, _, _)
SweepLoop(cm, last, rows, col, Zr, acc) ==
    IF cm > last \/ acc.err # "none" THEN acc
    ELSE SweepLoop(cm + 1, last, rows, col, Zr, SweepStep(cm, rows, col, Zr, acc))

\* One date: Dr = 0., Drmax = 0., then the loop.
Sweep(last, rows, col, Zr) ==
    SweepLoop(1, last, rows, col, Zr, [err |-> "none", Dr |-> 0, Drmax |-> 0])

\* Zr after the try block for date d: the date's own root depth if the merged
\* frame has the date, else what Zr was (KeyError: pass).
ZrFor(m, d, Zr) == IF InOdata(m, d) THEN m.odata[d].Zr ELSE Zr

\* The loop over swd_dict.items() from the i-th date on. Zr is the local of
\* the method: it lives across the dates. SWDr and SWDrmax are the dicts.
RECURSIVE DateLoop(_, _, _, _, _, _)
DateLoop(i, df, m, Zr, SWDr, SWDrmax) ==
    IF i > Len(df.cols)
    THEN [err |-> "none", SWDr |-> SWDr, SWDrmax |-> SWDrmax]
    ELSE LET d  == df.cols[i]
             z  == ZrFor(m, d, Zr)
             sw == Sweep(LastCm(m), df.rows, df.val[d], z)
         IN  IF sw.err # "none"
             THEN [err |-> sw.err, SWDr |-> SWDr, SWDrmax |-> SWDrmax]
             ELSE DateLoop(i + 1, df, m, z,
                           (d :> sw.Dr) @@ SWDr, (d :> sw.Drmax) @@ SWDrmax)

\* Quotients of floats, kept exact: [n, d] is n/d with d >= 0. A zero divisor
\* raises nothing (the operands are numpy floats): the quotient is inf, -inf
\* or, for 0/0, NaN.
QNaN == [n |-> 0, d |-> 0]

QInf == [n |-> 1, d |-> 0]

QNegInf == [n |-> 0 - 1, d |-> 0]

Q0 == [n |-> 0, d |-> 1]

Q1 == [n |-> 1, d |-> 1]

FDiv(a, b) ==
    IF a = NaN \/ b = NaN THEN QNaN
    ELSE IF b = 0 THEN (IF a > 0 THEN QInf ELSE IF a < 0 THEN QNegInf ELSE QNaN)
    ELSE IF b < 0 THEN [n |-> 0 - a, d |-> 0 - b]
    ELSE [n |-> a, d |-> b]

\* p < q; false when either is NaN.
QLt(p, q) == p # QNaN /\ q # QNaN /\ p.n * q.d < q.n * p.d

\* Variant of SortedMid that takes element [0] of the sorted list.
SortedFirst(q) == IF QLt(q, Q0) THEN q ELSE Q0

\* sorted([0.0, q, 1.0])[1], by the comparisons the sort makes.
SortedMid(q) == IF QLt(q, Q0) THEN Q0 ELSE IF QLt(Q1, q) THEN Q1 ELSE q

\* Ks[mykey] for one row of rzdata.
ObsKsOf(taw, raw, dr) == SortedMid(FDiv(FSub(taw, dr), FSub(taw, raw)))

\* The rows of rzdata as the method leaves them: one per merged date, with
\* the columns Year, DOY, Zr, SWDr, SWDrmax, ObsKs.
RzRow(d, m, SWDr, SWDrmax) ==
    [date |-> d, Year |-> d[1], DOY |-> d[2], Zr |-> m.odata[d].Zr,
     SWDr |-> SWDr[d], SWDrmax |-> SWDrmax[d],
     ObsKs |-> ObsKsOf(m.odata[d].TAW, m.odata[d].RAW, SWDr[d])]

RzRows(df, m, SWDr, SWDrmax) ==
    LET idx == Merged(df.cols, m)
    IN  [i \in 1..Len(idx) |-> RzRow(idx[i], m, SWDr, SWDrmax)]

None == [isNone |-> TRUE, rows |-> <<>>]

\* The dicts SWDr and SWDrmax before the loop over the dates.
NoLocals == [SWDr |-> <<>>, SWDrmax |-> <<>>]

\* Variant of RootZone that keeps the rows of old for the dates it has no new
\* row for.
RootZoneKeep(df, m, old) ==
    LET lp == DateLoop(1, df, m, Unbound, NoLocals.SWDr, NoLocals.SWDrmax)
        dicts == [SWDr |-> lp.SWDr, SWDrmax |-> lp.SWDrmax]
        new == RzRows(df, m, lp.SWDr, lp.SWDrmax)
        kept == SelectSeq(old.rows,
                          LAMBDA r : \A i \in DOMAIN new : new[i].date # r.date)
    IN  IF lp.err # "none"
        THEN [err |-> lp.err, rzdata |-> old, locals |-> dicts]
        ELSE [err |-> "none",
              rzdata |-> [isNone |-> FALSE, rows |-> new \o kept],
              locals |-> dicts]

\* Variant of RootZone that binds self.rzdata to the frame of the dates
\* before the loops, so that a call that raises leaves a frame without rows.
RootZonePartial(df, m, old) ==
    LET lp == DateLoop(1, df, m, Unbound, NoLocals.SWDr, NoLocals.SWDrmax)
        dicts == [SWDr |-> lp.SWDr, SWDrmax |-> lp.SWDrmax]
    IN  IF lp.err # "none"
        THEN [err |-> lp.err,
              rzdata |-> [isNone |-> FALSE, rows |-> <<>>],
              locals |-> dicts]
        ELSE [err |-> "none",
              rzdata |-> [isNone |-> FALSE,
                          rows |-> RzRows(df, m, lp.SWDr, lp.SWDrmax)],
              locals |-> dicts]

\* The outcome of compute_root_zone_swd(m) on the frame df: the exception
\* raised, the value self.rzdata has afterwards (old if it raised), and the
\* dicts SWDr and SWDrmax as the loop over the dates left them.
RootZone(df, m, old) ==
    LET lp == DateLoop(1, df, m, Unbound, NoLocals.SWDr, NoLocals.SWDrmax)
        dicts == [SWDr |-> lp.SWDr, SWDrmax |-> lp.SWDrmax]
    IN  IF lp.err # "none"
        THEN [err |-> lp.err, rzdata |-> old, locals |-> dicts]
        ELSE [err |-> "none",
              rzdata |-> [isNone |-> FALSE,
                          rows |-> RzRows(df, m, lp.SWDr, lp.SWDrmax)],
              locals |-> dicts]

---------------------------------------------------------------------------
\* loadfile(filepath) of SoilWaterDeficit

\* self.swddata.loc[depth] = data: a new row at the end, or the row of that
\* depth overwritten.
SetRow(df, depth, data) ==
    LET rows == IF depth \in Range(df.rows) THEN df.rows
                ELSE Append(df.rows, depth)
    IN  [cols |-> df.cols, rows |-> rows,
         val |-> [c \in Range(df.cols) |->
                    [r \in Range(rows) |->
                        IF r = depth
                        THEN data[CHOOSE i \in 1..Len(df.cols) : df.cols[i] = c]
                        ELSE df.val[c][r]]]]

RECURSIVE LoadLines(_, _, _)
LoadLines(df, lines, i) ==
    IF i > Len(lines) THEN df
    ELSE LoadLines(SetRow(df, lines[i].depth, lines[i].data), lines, i + 1)

\* pd.DataFrame(columns=cols), then one row per line after the header.
LoadFrame(file) == LoadLines(NoRows(file.cols), file.lines, 1)

---------------------------------------------------------------------------
\* The text of the files. A line of text is the list of its tokens, as
\* line.strip().split() gives them, and a token is the list of its characters.

Chars == <<"0", "1", "2", "3", "4", "5", "6", "7", "8", "9">>

DigitChar(d) == Chars[d + 1]

IsDigit(c) == \E d \in 0..9 : Chars[d + 1] = c

DigitVal(c) == CHOOSE d \in 0..9 : Chars[d + 1] = c

Pow10(k) == IF k = 0 THEN 1 ELSE IF k = 1 THEN 10 ELSE IF k = 2 THEN 100
            ELSE IF k = 3 THEN 1000 ELSE IF k = 4 THEN 10000
            ELSE IF k = 5 THEN 100000 ELSE 1000000

\* The decimal digits of n >= 0.
RECURSIVE Digits(_)
Digits(n) ==
    IF n < 10 THEN <<DigitChar(n)>>
    ELSE Digits(n \div 10) \o <<DigitChar(n % 10)>>

\* The k last decimal digits of n >= 0, zeros in front.
RECURSIVE LastDigits(_, _)
LastDigits(n, k) ==
    IF k = 0 THEN <<>> ELSE LastDigits(n \div 10, k - 1) \o <<DigitChar(n % 10)>>

\* '{:5d}'.format(n), stripped of its blanks.
FmtInt(n) == IF n < 0 THEN <<"-">> \o Digits(0 - n) ELSE Digits(n)

\* Fixed-point text with k decimals of the number q / 10^k.
FmtFixed(q, k) ==
    LET a == IF q < 0 THEN 0 - q ELSE q
        body == Digits(a \div Pow10(k)) \o <<".">> \o LastDigits(a % Pow10(k), k)
    IN  IF q < 0 THEN <<"-">> \o body ELSE body

NaNText == <<"N", "a", "N">>

\* q / 10^drop rounded to the nearest whole number (q an integer).
RoundDiv(q, drop) ==
    LET a == IF q < 0 THEN 0 - q ELSE q
        r == (a + Pow10(drop) \div 2) \div Pow10(drop)
    IN  IF q < 0 THEN 0 - r ELSE r

\* '{:8.3f}'.format(v) of a value in thousandths, na_rep for NaN.
Fmt3f(v) == IF v = NaN THEN NaNText ELSE FmtFixed(v, 3)

\* '{:9.5f}'.format(v) of a value in millionths: rounded to 5 decimals.
Fmt5f(v) == IF v = NaN THEN NaNText ELSE FmtFixed(RoundDiv(v, 1), 5)

AllDigits(tok) == Len(tok) >= 1 /\ \A i \in 1..Len(tok) : IsDigit(tok[i])

RECURSIVE ToNat(_)
ToNat(tok) ==
    IF tok = <<>> THEN 0
    ELSE 10 * ToNat(SubSeq(tok, 1, Len(tok) - 1)) + DigitVal(tok[Len(tok)])

Unsigned(tok) == IF tok # <<>> /\ Head(tok) = "-" THEN Tail(tok) ELSE tok

Signed(tok, n) == IF tok # <<>> /\ Head(tok) = "-" THEN 0 - n ELSE n

\* int(tok): the number, or ValueError.
PyInt(tok) ==
    IF AllDigits(Unsigned(tok))
    THEN [err |-> "none", v |-> Signed(tok, ToNat(Unsigned(tok)))]
    ELSE [err |-> "ValueError", v |-> 0]

\* float(tok) in units of 10^-k (k decimals kept): the number, NaN, or
\* ValueError. The tokens that reach it are those the formats above write and
\* the words of to_string.
PyFloat(tok, k) ==
    LET u == Unsigned(tok)
        dots == {i \in 1..Len(u) : u[i] = "."}
        dot == CHOOSE i \in dots : TRUE
        ip == SubSeq(u, 1, dot - 1)
        fp == SubSeq(u, dot + 1, Len(u))
    IN  IF tok = NaNText THEN [err |-> "none", v |-> NaN]
        ELSE IF AllDigits(u) THEN [err |-> "none", v |-> Signed(tok, ToNat(u) * Pow10(k))]
        ELSE IF Cardinality(dots) = 1 /\ AllDigits(ip) /\ AllDigits(fp) /\ Len(fp) <= k
        THEN [err |-> "none",
              v |-> Signed(tok, ToNat(ip) * Pow10(k) + ToNat(fp) * Pow10(k - Len(fp)))]
        ELSE [err |-> "ValueError", v |-> 0]

\* What to_string gives in place of the rows for a frame without rows or
\* without columns: 'Empty DataFrame', 'Columns: [...]', 'Index: []'. The
\* printed lists are one token each here; no reader gets past the first line.
EmptyInfo ==
    << << <<"E", "m", "p", "t", "y">>,
          <<"D", "a", "t", "a", "F", "r", "a", "m", "e">> >>,
       << <<"C", "o", "l", "u", "m", "n", "s", ":">>, <<"[", "]">> >>,
       << <<"I", "n", "d", "e", "x", ":">>, <<"[", "]">> >> >>

\* A path without a file.
NoText == [exists |-> FALSE, cols |-> <<>>, body |-> <<>>]

\* __str__ of SoilWaterContent and of SoilWaterDeficit: cols is the header
\* line after 'Depth' (each column name as it is), body the lines after it,
\* a depth as '{:5d}' and then a value as '{:8.3f}' for every date column.
FrameStr(df) ==
    [exists |-> TRUE,
     cols |-> df.cols,
     body |-> IF df.cols = <<>> \/ df.rows = <<>> THEN EmptyInfo
              ELSE [i \in 1..Len(df.rows) |->
                       <<FmtInt(df.rows[i])>> \o
                       [j \in 1..Len(df.cols) |->
                           Fmt3f(df.val[df.cols[j]][df.rows[i]])]]]

\* data.append(float(line[i])) for i in 1..n, from the i-th on: the list, or
\* the IndexError of a line that is too short, or the ValueError of float.
RECURSIVE ParseData(_, _, _, _, _)
ParseData(line, n, i, k, data) ==
    IF i > n THEN [err |-> "none", data |-> data]
    ELSE IF i + 1 > Len(line) THEN [err |-> "IndexError", data |-> data]
    ELSE LET f == PyFloat(line[i + 1], k)
         IN  IF f.err # "none" THEN [err |-> f.err, data |-> data]
             ELSE ParseData(line, n, i + 1, k, Append(data, f.v))

\* The loop over lines[5:] from the i-th line on: the lines read before the
\* first exception, and that exception.
RECURSIVE ParseLines(_, _, _, _)
ParseLines(body, n, i, lines) ==
    IF i > Len(body) THEN [err |-> "none", lines |-> lines]
    ELSE LET depth == PyInt(body[i][1])
             data  == ParseData(body[i], n, 1, 3, <<>>)
         IN  IF depth.err # "none" THEN [err |-> depth.err, lines |-> lines]
             ELSE IF data.err # "none" THEN [err |-> data.err, lines |-> lines]
             ELSE ParseLines(body, n, i + 1,
                             Append(lines, [depth |-> depth.v, data |-> data.data]))

\* loadfile of SoilWaterContent and of SoilWaterDeficit on the text of a file
\* that exists: the frame it leaves in the object, and the exception raised.
LoadText(text) ==
    LET p == ParseLines(text.body, Len(text.cols), 1, <<>>)
    IN  [err |-> p.err,
         frame |-> LoadLines(NoRows(text.cols), p.lines, 1)]

---------------------------------------------------------------------------
\* SoilWater. Depths are in millimeters, the values of soil_water_profile in
\* millionths (of a meter, of m3/m3, of a millimeter of water). A label of
\* the index is a float (num) or a str (tok). A row is the list of the values
\* of the columns cnames: Lr_Strt, Lr_End, Lr_Thck, thetaFC, thetaIN,
\* thetaWP, FC_mm, IN_mm, WP_mm.

FloatLabel(d) == [type |-> "float", num |-> d, tok |-> <<>>]

StrLabel(tok) == [type |-> "str", num |-> 0, tok |-> tok]

\* An argument of the constructor: a list, or None.
Given(v) == [given |-> TRUE, v |-> v]

NotGiven == [given |-> FALSE, v |-> <<>>]

\* No object, and the object as __init__ has it after "self.cnames = ...":
\* no attribute soil_water_profile, depths, theta_fc, theta_ini, theta_wp.
NoObject ==
    [made |-> FALSE, has_profile |-> FALSE, has_lists |-> FALSE,
     depths |-> <<>>, theta_fc |-> <<>>, theta_ini |-> <<>>, theta_wp |-> <<>>,
     index |-> <<>>, rows |-> <<>>]

BareObject == [NoObject EXCEPT !.made = TRUE]

\* layer_end - layer_start as it is, without the rounding.
ThicknessNoRound(lb) == lb[2] - lb[1]

\* round(layer_end - layer_start, 3), in millionths of a meter.
Thickness(lb) == RoundDiv(lb[2] - lb[1], 3) * 1000

\* The entries the loop adds for one layer, and the three given values.
ProfileRow(lb, fc, ini, wp) ==
    <<lb[1], lb[2], Thickness(lb), fc, ini, wp,
      fc * (Thickness(lb) \div 1000), ini * (Thickness(lb) \div 1000),
      wp * (Thickness(lb) \div 1000)>>

\* The branch of __init__ for lists: the loop over enumerate(depths) raises
\* IndexError on a list shorter than depths, and pd.DataFrame(..., index=
\* depths) raises ValueError on theta lists longer than depths.
FromLists(depths, fc, ini, wp, lb) ==
    LET n == Len(depths)
        short == Len(lb) < n \/ Len(fc) < n \/ Len(ini) < n \/ Len(wp) < n
        long == Len(fc) > n \/ Len(ini) > n \/ Len(wp) > n
    IN  IF short THEN [err |-> "IndexError", obj |-> NoObject]
        ELSE IF long THEN [err |-> "ValueError", obj |-> NoObject]
        ELSE [err |-> "none",
              obj |-> [made |-> TRUE, has_profile |-> TRUE, has_lists |-> TRUE,
                       depths |-> [i \in 1..n |-> FloatLabel(depths[i])],
                       theta_fc |-> fc, theta_ini |-> ini, theta_wp |-> wp,
                       index |-> [i \in 1..n |-> FloatLabel(depths[i])],
                       rows |-> [i \in 1..n |->
                                   ProfileRow(lb[i], fc[i], ini[i], wp[i])]]]

\* The decimals to_string gives a float index: as many as the label that
\* needs most (0.15 and 0.3 are written 0.15 and 0.30), at least one.
Decimals(d) == IF d % 10 # 0 THEN 3 ELSE IF d % 100 # 0 THEN 2 ELSE 1

IndexDecimals(index) ==
    IF \E i \in DOMAIN index : index[i].type = "float" /\ Decimals(index[i].num) = 3
    THEN 3
    ELSE IF \E i \in DOMAIN index :
               index[i].type = "float" /\ Decimals(index[i].num) = 2
    THEN 2 ELSE 1

\* A label of the index as to_string writes it: a str as it is.
LabelText(l, k) ==
    IF l.type = "str" THEN l.tok ELSE FmtFixed(l.num \div Pow10(3 - k), k)

\* __str__ of SoilWater: the lines after the header, a label and then the
\* nine values as '{:9.5f}'.
ProfileStr(obj) ==
    [exists |-> TRUE,
     cols |-> <<>>,
     body |-> IF obj.index = <<>> THEN EmptyInfo
              ELSE [i \in 1..Len(obj.index) |->
                       <<LabelText(obj.index[i], IndexDecimals(obj.index))>> \o
                       [j \in 1..9 |-> Fmt5f(obj.rows[i][j])]]]

\* self.soil_water_profile.loc[depth] = data
SetProfileRow(index, rows, depth, data) ==
    IF \E i \in DOMAIN index : index[i] = depth
    THEN [index |-> index,
          rows |-> [i \in DOMAIN rows |-> IF index[i] = depth THEN data ELSE rows[i]]]
    ELSE [index |-> Append(index, depth), rows |-> Append(rows, data)]

\* The loop over lines[6:] from the i-th line on: depth is the first token
\* as it is (a str), data the nine floats after it.
RECURSIVE LoadProfileLines(_, _, _, _)
LoadProfileLines(body, i, index, rows) ==
    IF i > Len(body) THEN [err |-> "none", index |-> index, rows |-> rows]
    ELSE IF body[i] = <<>> THEN [err |-> "IndexError", index |-> index, rows |-> rows]
    ELSE LET data == ParseData(body[i], 9, 1, 6, <<>>)
             set  == SetProfileRow(index, rows, StrLabel(body[i][1]), data.data)
         IN  IF data.err # "none"
             THEN [err |-> data.err, index |-> index, rows |-> rows]
             ELSE LoadProfileLines(body, i + 1, set.index, set.rows)

Column(rows, j) == [i \in DOMAIN rows |-> rows[i][j]]

\* loadfile of SoilWater on the text of a file that exists: the object after
\* it, and the exception raised. The four list attributes are set after the
\* loop, so an exception leaves them as they were.
LoadProfile(text, obj) ==
    LET p == LoadProfileLines(text.body, 1, <<>>, <<>>)
    IN  [err |-> p.err,
         obj |-> [made |-> TRUE, has_profile |-> TRUE,
                  has_lists |-> IF p.err = "none" THEN TRUE ELSE obj.has_lists,
                  depths |-> IF p.err = "none" THEN p.index ELSE obj.depths,
                  theta_fc |-> IF p.err = "none" THEN Column(p.rows, 4)
                               ELSE obj.theta_fc,
                  theta_ini |-> IF p.err = "none" THEN Column(p.rows, 5)
                                ELSE obj.theta_ini,
                  theta_wp |-> IF p.err = "none" THEN Column(p.rows, 6)
                               ELSE obj.theta_wp,
                  index |-> p.index, rows |-> p.rows]]

---------------------------------------------------------------------------
\* Inputs.

D1 == <<2022, 150>>

D2 == <<2022, 151>>

Ln(depth, data) == [depth |-> depth, data |-> data]

NoSol == [rows |-> <<>>, fc |-> <<>>]

\* Field-capacity series of the soil profile: both layers, or the deep layer
\* missing.
Sols ==
    { [rows |-> <<15, 45>>, fc |-> (15 :> 300 @@ 45 :> 250)],
      [rows |-> <<15>>,     fc |-> (15 :> 300)] }

\* Water content of one date by depth.
Profiles ==
    { (15 :> 100 @@ 45 :> 150),
      (15 :> 300 @@ 45 :> 300) }

ContentCols == { <<D1>>, <<D1, D2>>, <<D2, D1>> }

\* The frames customload gives to swc.
ContentFrames ==
    UNION { { [cols |-> cs, rows |-> <<15, 45>>, val |-> v]
              : v \in [Range(cs) -> Profiles] } : cs \in ContentCols }

\* The files loadfile of swd is given: a path that does not exist, and files
\* with a negative value, with NaN, with the rows deepest first, with one
\* layer only, and with the header alone.
NoFile == [exists |-> FALSE, cols |-> <<>>, lines |-> <<>>]

Files ==
    { NoFile,
      [exists |-> TRUE, cols |-> <<D1>>,
       lines |-> <<Ln(15, <<200>>), Ln(45, <<0 - 100>>)>>],
      [exists |-> TRUE, cols |-> <<D1>>,
       lines |-> <<Ln(15, <<200>>), Ln(45, <<NaN>>)>>],
      [exists |-> TRUE, cols |-> <<D1, D2>>,
       lines |-> <<Ln(45, <<100, 200>>), Ln(15, <<200, 0>>)>>],
      [exists |-> TRUE, cols |-> <<D2>>,
       lines |-> <<Ln(15, <<200>>)>>],
      [exists |-> TRUE, cols |-> <<D1>>, lines |-> <<>>] }

\* One day of the simulation's output: Zr in millimeters, TAW and RAW in
\* thousandths of a millimeter.
DayRecs ==
    { [Zr |-> 200, TAW |-> 60000, RAW |-> 30000],
      [Zr |-> 206, TAW |-> 35000, RAW |-> 35000],
      [Zr |-> 150, TAW |-> 20000, RAW |-> 10000] }

LaterRec == [Zr |-> 200, TAW |-> 60000, RAW |-> 30000]

\* The simulation covers any of the two dates; the second date, when it is
\* covered, has the output LaterRec.
Odatas ==
    UNION { { [d \in ds |-> IF d = D1 THEN r ELSE LaterRec] : r \in DayRecs }
            : ds \in SUBSET {D1, D2} }

Zrmaxes == {450, 455, 500}

Models == { [odata |-> od, Zrmax |-> z] : od \in Odatas, z \in Zrmaxes }

\* The paths: the default filepath of each class.
SwPath == "pyfao56.sh2o"

SwcPath == "tools_pyfao56.smc"

SwdPath == "tools_pyfao56.swd"

Paths == {SwPath, SwcPath, SwdPath}

NoFiles == [p \in Paths |-> NoText]

NothingWritten == [p \in Paths |-> IF p = SwPath THEN NoObject ELSE EmptyFrame]

\* What the classes print.
SwdNotFound == "The filepath for soil water deficit data is not found."

SwcNotFound == "The filepath for soil water content data is not found."

SwNotFound == "The filepath for soil water data is not found."

Usage == "To initialize the class, please either supply a filepath ..."

\* The arguments of SoilWater(...): two layers, with thetaFC of the second
\* layer given to six decimals.
SwArgs(filepath, depths, fc, ini, wp, lb) ==
    [filepath |-> filepath, depths |-> depths, theta_fc |-> fc,
     theta_ini |-> ini, theta_wp |-> wp, layer_boundaries |-> lb]

GoodDepths == Given(<<150, 300>>)

GoodFC == Given(<<290000, 123456>>)

GoodIni == Given(<<83000, 58000>>)

GoodWP == Given(<<145000, 120000>>)

GoodLB == Given(<< <<0, 150000>>, <<150000, 450000>> >>)

\* SoilWater() without arguments.
NoArgs == SwArgs(FALSE, NotGiven, NotGiven, NotGiven, NotGiven, NotGiven)

\* Contiguous layers; a gap between the layers; a layer that ends above its
\* start; each one of the five lists missing; a filepath alone; a list of
\* boundaries that is too short; a list of thetaFC that is too long; lists
\* without layers; layers with thetaFC 0.20, the first 0.30 m thick and the
\* second ending at 0.6006 m; and a list of boundaries that is too long.
InitArgs ==
    { SwArgs(FALSE, GoodDepths, GoodFC, GoodIni, GoodWP, GoodLB),
      SwArgs(FALSE, GoodDepths, GoodFC, GoodIni, GoodWP,
             Given(<< <<0, 150000>>, <<200000, 450000>> >>)),
      SwArgs(FALSE, GoodDepths, GoodFC, GoodIni, GoodWP,
             Given(<< <<0, 150000>>, <<150000, 100000>> >>)),
      SwArgs(FALSE, NotGiven, GoodFC, GoodIni, GoodWP, GoodLB),
      SwArgs(FALSE, GoodDepths, NotGiven, GoodIni, GoodWP, GoodLB),
      SwArgs(FALSE, GoodDepths, GoodFC, NotGiven, GoodWP, GoodLB),
      SwArgs(FALSE, GoodDepths, GoodFC, GoodIni, NotGiven, GoodLB),
      SwArgs(FALSE, GoodDepths, GoodFC, GoodIni, GoodWP, NotGiven),
      SwArgs(TRUE, NotGiven, NotGiven, NotGiven, NotGiven, NotGiven),
      SwArgs(FALSE, GoodDepths, GoodFC, GoodIni, GoodWP,
             Given(<< <<0, 150000>> >>)),
      SwArgs(FALSE, GoodDepths, Given(<<290000, 123456, 182000>>), GoodIni,
             GoodWP, GoodLB),
      SwArgs(FALSE, Given(<<>>), Given(<<>>), Given(<<>>), Given(<<>>),
             Given(<<>>)),
      SwArgs(FALSE, Given(<<300, 600>>), Given(<<200000, 200000>>), GoodIni,
             GoodWP, Given(<< <<0, 300000>>, <<300000, 600600>> >>)),
      SwArgs(FALSE, GoodDepths, GoodFC, GoodIni, GoodWP,
             Given(<< <<0, 150000>>, <<150000, 450000>>,
                      <<450000, 750000>> >>)) }

---------------------------------------------------------------------------
\* The state after construction: SoilWaterContent() and SoilWaterDeficit().
Init ==
    /\ swcdata = EmptyFrame
    /\ swddata = EmptyFrame
    /\ rzdata = None
    /\ sdata = NoSol
    /\ op = "init"
    /\ err = "none"
    /\ mdl = NoMdl
    /\ locals = NoLocals
    /\ rzbefore = <<>>
    /\ pre = EmptyFrame
    /\ orig = EmptyFrame
    /\ ncalls = 0
    /\ nops = 0
    /\ swater = NoObject
    /\ fs = NoFiles
    /\ written = NothingWritten
    /\ printed = ""
    /\ args = NoArgs

\* swc.customload(df) of the subclass: self.swcdata = df
Customload(df) ==
    /\ nops < MaxOps
    /\ swcdata' = df
    /\ orig' = df
    /\ ncalls' = 0
    /\ op' = "customload"
    /\ err' = "none"
    /\ mdl' = NoMdl
    /\ locals' = NoLocals
    /\ rzbefore' = <<>>
    /\ pre' = EmptyFrame
    /\ sdata' = NoSol
    /\ nops' = nops + 1
    /\ printed' = ""
    /\ UNCHANGED <<swddata, rzdata>>
    /\ UNCHANGED ioVars

\* swd.compute_swd_from_swc(swc, sol): swddata is bound to the frame object of
\* swc, and every later statement works on that one object in place.
ComputeSwdFromSwc(sol) ==
    /\ nops < MaxOps
    /\ LET df == ToDeficit(swcdata, sol)
       IN  /\ swddata' = df
           /\ swcdata' = df
    /\ sdata' = sol
    /\ pre' = swcdata
    /\ ncalls' = IF op = "customload" THEN 1
                  ELSE IF op = "compute_swd_from_swc" /\ ncalls >= 1 /\ sol = sdata
                  THEN (IF ncalls < MaxCalls THEN ncalls + 1 ELSE ncalls)
                  ELSE 0
    /\ op' = "compute_swd_from_swc"
    /\ err' = "none"
    /\ mdl' = NoMdl
    /\ locals' = NoLocals
    /\ rzbefore' = <<>>
    /\ nops' = nops + 1
    /\ printed' = ""
    /\ UNCHANGED <<rzdata, orig>>
    /\ UNCHANGED ioVars

\* Variant of SwdLoadfile that empties swddata and rzdata before the file is
\* opened.
SwdLoadfileReset(file) ==
    /\ nops < MaxOps
    /\ swddata' = IF file.exists THEN LoadFrame(file) ELSE EmptyFrame
    /\ rzdata' = IF file.exists THEN rzdata ELSE None
    /\ op' = "loadfile"
    /\ err' = "none"
    /\ mdl' = NoMdl
    /\ locals' = NoLocals
    /\ rzbefore' = <<>>
    /\ pre' = EmptyFrame
    /\ ncalls' = 0
    /\ sdata' = NoSol
    /\ nops' = nops + 1
    /\ printed' = IF file.exists THEN "" ELSE SwdNotFound
    /\ UNCHANGED <<swcdata, orig>>
    /\ UNCHANGED ioVars

\* swd.loadfile(filepath): FileNotFoundError is caught and printed.
SwdLoadfile(file) ==
    /\ nops < MaxOps
    /\ swddata' = IF file.exists THEN LoadFrame(file) ELSE swddata
    /\ op' = "loadfile"
    /\ err' = "none"
    /\ mdl' = NoMdl
    /\ locals' = NoLocals
    /\ rzbefore' = <<>>
    /\ pre' = EmptyFrame
    /\ ncalls' = 0
    /\ sdata' = NoSol
    /\ nops' = nops + 1
    /\ printed' = IF file.exists THEN "" ELSE SwdNotFound
    /\ UNCHANGED <<swcdata, rzdata, orig>>
    /\ UNCHANGED ioVars

\* swd.compute_root_zone_swd(m)
ComputeRootZoneSwd(m) ==
    /\ nops < MaxOps
    /\ LET out == RootZone(swddata, m, rzdata)
       IN  /\ rzdata' = out.rzdata
           /\ err' = out.err
           /\ locals' = out.locals
    /\ rzbefore' = [i \in DOMAIN rzdata.rows |-> rzdata.rows[i].date]
    /\ mdl' = m
    /\ op' = "compute_root_zone_swd"
    /\ pre' = EmptyFrame
    /\ ncalls' = 0
    /\ sdata' = NoSol
    /\ nops' = nops + 1
    /\ printed' = ""
    /\ UNCHANGED <<swcdata, swddata, orig>>
    /\ UNCHANGED ioVars

---------------------------------------------------------------------------
\* Files: savefile and loadfile of the three classes, and SoilWater(...).

\* What an operation on files leaves of the records of the computations.
ResetHistory ==
    /\ sdata' = NoSol
    /\ mdl' = NoMdl
    /\ locals' = NoLocals
    /\ rzbefore' = <<>>
    /\ pre' = EmptyFrame
    /\ ncalls' = 0

\* swc.savefile(): open(filepath, 'w'), then f.write(self.__str__())
SwcSavefile ==
    /\ nops < MaxOps
    /\ fs' = [fs EXCEPT ![SwcPath] = FrameStr(swcdata)]
    /\ written' = [written EXCEPT ![SwcPath] = swcdata]
    /\ op' = "swc.savefile"
    /\ err' = "none"
    /\ printed' = ""
    /\ nops' = nops + 1
    /\ ResetHistory
    /\ UNCHANGED <<swcdata, swddata, rzdata, orig, swater, args>>

\* swc.loadfile(): FileNotFoundError is caught and printed; any other
\* exception leaves the rows read so far.
SwcLoadfile ==
    /\ nops < MaxOps
    /\ IF fs[SwcPath].exists
       THEN /\ swcdata' = LoadText(fs[SwcPath]).frame
            /\ err' = LoadText(fs[SwcPath]).err
            /\ printed' = ""
       ELSE /\ swcdata' = swcdata
            /\ err' = "none"
            /\ printed' = SwcNotFound
    /\ op' = "swc.loadfile"
    /\ nops' = nops + 1
    /\ ResetHistory
    /\ UNCHANGED <<swddata, rzdata, orig, swater, fs, written, args>>

\* swd.savefile()
SwdSavefile ==
    /\ nops < MaxOps
    /\ fs' = [fs EXCEPT ![SwdPath] = FrameStr(swddata)]
    /\ written' = [written EXCEPT ![SwdPath] = swddata]
    /\ op' = "swd.savefile"
    /\ err' = "none"
    /\ printed' = ""
    /\ nops' = nops + 1
    /\ ResetHistory
    /\ UNCHANGED <<swcdata, swddata, rzdata, orig, swater, args>>

\* swd.loadfile() on the text at the path.
SwdLoadfileAt ==
    /\ nops < MaxOps
    /\ IF fs[SwdPath].exists
       THEN /\ swddata' = LoadText(fs[SwdPath]).frame
            /\ err' = LoadText(fs[SwdPath]).err
            /\ printed' = ""
       ELSE /\ swddata' = swddata
            /\ err' = "none"
            /\ printed' = SwdNotFound
    /\ op' = "swd.loadfile"
    /\ nops' = nops + 1
    /\ ResetHistory
    /\ UNCHANGED <<swcdata, rzdata, orig, swater, fs, written, args>>

AllGiven(a) ==
    /\ a.depths.given /\ a.theta_fc.given /\ a.theta_ini.given
    /\ a.theta_wp.given /\ a.layer_boundaries.given

\* SoilWater.__init__: the exception raised, the object, and what is printed.
Construct(a, files) ==
    IF a.filepath
    THEN IF files[SwPath].exists
         THEN [err |-> LoadProfile(files[SwPath], BareObject).err,
               obj |-> LoadProfile(files[SwPath], BareObject).obj,
               out |-> ""]
         ELSE [err |-> "none", obj |-> BareObject, out |-> SwNotFound]
    ELSE IF AllGiven(a)
    THEN [err |-> FromLists(a.depths.v, a.theta_fc.v, a.theta_ini.v,
                            a.theta_wp.v, a.layer_boundaries.v).err,
          obj |-> FromLists(a.depths.v, a.theta_fc.v, a.theta_ini.v,
                            a.theta_wp.v, a.layer_boundaries.v).obj,
          out |-> ""]
    ELSE [err |-> "none", obj |-> BareObject, out |-> Usage]

\* swater = SoilWater(...): when __init__ raises, swater keeps what it was
\* bound to.
SoilWaterInit(a) ==
    /\ nops < MaxOps
    /\ swater' = IF Construct(a, fs).err = "none" THEN Construct(a, fs).obj
                  ELSE swater
    /\ err' = Construct(a, fs).err
    /\ printed' = Construct(a, fs).out
    /\ args' = a
    /\ op' = "SoilWater"
    /\ nops' = nops + 1
    /\ ResetHistory
    /\ UNCHANGED <<swcdata, swddata, rzdata, orig, fs, written>>

\* swater.savefile(): open(filepath, 'w') makes the file empty, and __str__
\* raises AttributeError on an object without soil_water_profile.
SwSavefile ==
    /\ nops < MaxOps
    /\ swater.made
    /\ fs' = [fs EXCEPT ![SwPath] =
                 IF swater.has_profile THEN ProfileStr(swater)
                 ELSE [exists |-> TRUE, cols |-> <<>>, body |-> <<>>]]
    /\ written' = [written EXCEPT ![SwPath] = swater]
    /\ err' = IF swater.has_profile THEN "none" ELSE "AttributeError"
    /\ printed' = ""
    /\ op' = "sw.savefile"
    /\ nops' = nops + 1
    /\ ResetHistory
    /\ UNCHANGED <<swcdata, swddata, rzdata, orig, swater, args>>

\* swater.loadfile()
SwLoadfile ==
    /\ nops < MaxOps
    /\ swater.made
    /\ IF fs[SwPath].exists
       THEN /\ swater' = LoadProfile(fs[SwPath], swater).obj
            /\ err' = LoadProfile(fs[SwPath], swater).err
            /\ printed' = ""
       ELSE /\ swater' = swater
            /\ err' = "none"
            /\ printed' = SwNotFound
    /\ op' = "sw.loadfile"
    /\ nops' = nops + 1
    /\ ResetHistory
    /\ UNCHANGED <<swcdata, swddata, rzdata, orig, fs, written, args>>

\* The calls on swc and swd; no file is ever written here, so that every
\* swc.loadfile() is of a path without a file.
Next ==
    \/ \E df \in ContentFrames : Customload(df)
    \/ \E sol \in Sols : ComputeSwdFromSwc(sol)
    \/ \E file \in Files : SwdLoadfile(file)
    \/ \E m \in Models : ComputeRootZoneSwd(m)
    \/ SwcLoadfile

Spec == Init /\ [][Next]_vars

NextIO ==
    \/ \E df \in ContentFrames : Customload(df)
    \/ \E sol \in Sols : ComputeSwdFromSwc(sol)
    \/ SwcSavefile
    \/ SwcLoadfile
    \/ SwdSavefile
    \/ SwdLoadfileAt
    \/ \E a \in InitArgs : SoilWaterInit(a)
    \/ SwSavefile
    \/ SwLoadfile

SpecIO == Init /\ [][NextIO]_vars

---------------------------------------------------------------------------
\* Properties of compute_swd_from_swc.

Max0(x) == IF x > 0 THEN x ELSE 0

Cells(df) == {<<c, r>> : c \in Range(df.cols), r \in Range(df.rows)}

HasFC(r) == r \in Range(sdata.rows)

\* C1: after compute_swd_from_swc the deficit series has the date columns and
\* depth rows of the content series the call was given, every cell of a
\* depth that has a field capacity is max(0, thetaFC[depth] - content), and
\* no cell is negative.
C1_DeficitIsClippedDifference ==
    op = "compute_swd_from_swc" =>
        /\ swddata.cols = pre.cols
        /\ Range(pre.rows) \subseteq Range(swddata.rows)
        /\ \A x \in Cells(pre) :
              (HasFC(x[2]) /\ IsNum(pre.val[x[1]][x[2]])) =>
                  swddata.val[x[1]][x[2]]
                      = Max0(sdata.fc[x[2]] - pre.val[x[1]][x[2]])
        /\ \A x \in Cells(swddata) : ~ (swddata.val[x[1]][x[2]] < 0
                                        /\ IsNum(swddata.val[x[1]][x[2]]))

\* C1 witness: a content above field capacity (0.30 against 0.25) came out
\* as deficit 0, beside a content below it that came out positive.
C1_Witness ==
    /\ op = "compute_swd_from_swc"
    /\ \E x \in Cells(pre) :
          /\ HasFC(x[2]) /\ sdata.fc[x[2]] = 250 /\ pre.val[x[1]][x[2]] = 300
          /\ swddata.val[x[1]][x[2]] = 0
    /\ \E x \in Cells(pre) :
          /\ HasFC(x[2]) /\ sdata.fc[x[2]] = 300 /\ pre.val[x[1]][x[2]] = 100
          /\ swddata.val[x[1]][x[2]] = 200

\* C2 as claimed: after compute_swd_from_swc the content series of swc has the
\* columns and the water-content values it had before the call.
C2_InputsNotMutated ==
    op = "compute_swd_from_swc" =>
        /\ swcdata.cols = pre.cols
        /\ \A x \in Cells(pre) : swcdata.val[x[1]][x[2]] = pre.val[x[1]][x[2]]

\* C3 as claimed: after any number of compute_swd_from_swc calls in a row on
\* the content customload gave, the deficit series is max(0, thetaFC - that
\* content).
C3_DerivedFreshEveryCall ==
    (op = "compute_swd_from_swc" /\ ncalls >= 1) =>
        \A x \in Cells(orig) :
            HasFC(x[2]) =>
                swddata.val[x[1]][x[2]]
                    = Max0(sdata.fc[x[2]] - orig.val[x[1]][x[2]])

\* C4 as claimed: compute_swd_from_swc does not return normally when a depth
\* of the content series has no field-capacity entry.
C4_MissingFieldCapacityFails ==
    ~ ( /\ op = "compute_swd_from_swc"
        /\ err = "none"
        /\ \E r \in Range(pre.rows) : ~ HasFC(r) /\ r \in Range(swddata.rows) )

---------------------------------------------------------------------------
\* Properties of compute_root_zone_swd.

Returned == op = "compute_root_zone_swd" /\ err = "none"

RzIdx == DOMAIN rzdata.rows

\* The whole centimeters 1..rmax, and those of them within the root depth Zr
\* (millimeters).
AllCm == {cm \in 1..(mdl.Zrmax \div 10 + 1) : cm * 10 <= mdl.Zrmax}

RootCm(Zr) == {cm \in AllCm : cm * 10 <= Zr}

\* The layer that owns a centimeter: the first row, in row order, whose bottom
\* depth is not above it.
OwnerOf(rows, cm) ==
    rows[CHOOSE i \in 1..Len(rows) :
            /\ cm <= rows[i]
            /\ \A j \in 1..(i - 1) : rows[j] < cm]

OwnedBy(rows, S, k) == {cm \in S : OwnerOf(rows, cm) = k}

RECURSIVE SumOverLayers(_, _, _, _)
SumOverLayers(K, rows, col, S) ==
    IF K = {} THEN 0
    ELSE LET k == CHOOSE x \in K : TRUE
         IN  Cardinality(OwnedBy(rows, S, k)) * 10 * col[k]
                 + SumOverLayers(K \ {k}, rows, col, S)

\* The sum over the centimeters S of 10 * deficit[owner(cm)], in thousandths
\* of a millimeter; NaN when a deficit that is summed is NaN.
SumOfCm(rows, col, S) ==
    IF \E cm \in S : col[OwnerOf(rows, cm)] = NaN THEN NaN
    ELSE SumOverLayers(Range(rows), rows, col, S)

\* The scenario of two layers: bottoms 15 and 45 cm, deficits 0.20 and 0.10,
\* Zr = 0.20 m, Zrmax = 0.45 m, on date d.
Scenario(d) ==
    /\ swddata.rows = <<15, 45>>
    /\ d \in Range(swddata.cols)
    /\ swddata.val[d] = (15 :> 200 @@ 45 :> 100)
    /\ InOdata(mdl, d)
    /\ mdl.odata[d].Zr = 200
    /\ mdl.Zrmax = 450

\* C5: every row of rzdata has SWDrmax equal to the sum over the centimeters
\* 1..rmax of 10 * deficit[date][owner(cm)] and SWDr equal to the same sum
\* over the centimeters cm <= Zr; in the two-layer scenario they are 35.0 mm
\* and 60.0 mm.
C5_RootZoneSums ==
    Returned =>
        \A i \in RzIdx :
            LET row == rzdata.rows[i]
                col == swddata.val[row.date]
            IN  /\ row.SWDrmax = SumOfCm(swddata.rows, col, AllCm)
                /\ row.SWDr = SumOfCm(swddata.rows, col, RootCm(row.Zr))
                /\ Scenario(row.date) =>
                       (row.SWDr = 35000 /\ row.SWDrmax = 60000)

\* C5 witness: the call returned a row for the two-layer scenario.
C5_Witness ==
    /\ Returned
    /\ \E i \in RzIdx :
          /\ Scenario(rzdata.rows[i].date)
          /\ rzdata.rows[i].SWDr = 35000
          /\ rzdata.rows[i].SWDrmax = 60000

\* Every value of the deficit series is a number that is not negative.
NonNegative(df) ==
    \A x \in Cells(df) : IsNum(df.val[x[1]][x[2]]) /\ df.val[x[1]][x[2]] >= 0

\* C6 as claimed: every row of rzdata has SWDr <= SWDrmax, whatever deficit
\* series the integrator was given.
C6_DrAtMostDrmax ==
    Returned => \A i \in RzIdx : FLe(rzdata.rows[i].SWDr, rzdata.rows[i].SWDrmax)

\* C6 as amended: every row of rzdata has SWDr <= SWDrmax when every value of
\* the deficit series is a number that is not negative.
C6_DrAtMostDrmaxNonNegative ==
    (Returned /\ NonNegative(swddata)) =>
        \A i \in RzIdx : FLe(rzdata.rows[i].SWDr, rzdata.rows[i].SWDrmax)

\* C6 witness: a row of a non-negative series whose SWDr is positive and
\* below its SWDrmax.
C6_Witness ==
    /\ Returned
    /\ NonNegative(swddata)
    /\ \E i \in RzIdx : /\ 0 < rzdata.rows[i].SWDr
                        /\ rzdata.rows[i].SWDr < rzdata.rows[i].SWDrmax

\* Root depths (millimeters) against which monotonicity is tried.
ZrTried == {0, 100, 150, 200, 206, 300, 450, 500}

\* Dr of the date of row i had its root depth been Zr.
DrWith(i, Zr) ==
    Sweep(LastCm(mdl), swddata.rows, swddata.val[rzdata.rows[i].date], Zr).Dr

Monotone(i) ==
    \A z \in ZrTried :
        /\ z >= rzdata.rows[i].Zr => FLe(rzdata.rows[i].SWDr, DrWith(i, z))
        /\ z <= rzdata.rows[i].Zr => FLe(DrWith(i, z), rzdata.rows[i].SWDr)

\* C7 as claimed: for the deficit series, bounds and Zrmax of the call, a
\* deeper root depth for the date of a row gives a Dr at least the row's, and
\* a shallower one a Dr at most the row's.
C7_DrMonotoneInZr ==
    Returned => \A i \in RzIdx : Monotone(i)

\* C7 as amended: the same, when every value of the deficit series is a
\* number that is not negative.
C7_DrMonotoneInZrNonNegative ==
    (Returned /\ NonNegative(swddata)) => \A i \in RzIdx : Monotone(i)

\* C7 witness: a row of a non-negative series for which a deeper root depth
\* gives a strictly larger Dr.
C7_Witness ==
    /\ Returned
    /\ NonNegative(swddata)
    /\ \E i \in RzIdx : \E z \in ZrTried :
          /\ z > rzdata.rows[i].Zr
          /\ rzdata.rows[i].SWDr < DrWith(i, z)

\* ObsKs of row i is (TAW - Dr) / (TAW - RAW) of the row's date clamped into
\* [0, 1], and so lies in [0, 1].
ClampedKs(i) ==
    LET row == rzdata.rows[i]
        num == mdl.odata[row.date].TAW - row.SWDr
        den == mdl.odata[row.date].TAW - mdl.odata[row.date].RAW
        \* the quotient num/den against 0 and 1, by the sign of den
        below0 == (den > 0 /\ num <= 0) \/ (den < 0 /\ num >= 0)
        above1 == (den > 0 /\ num >= den) \/ (den < 0 /\ num <= den)
        ks == row.ObsKs
    IN  /\ ks.d > 0
        /\ 0 <= ks.n /\ ks.n <= ks.d
        /\ below0 => ks.n = 0
        /\ above1 => ks.n = ks.d
        /\ (~ below0 /\ ~ above1) => ks.n * den = num * ks.d

DistinctBounds(i) ==
    mdl.odata[rzdata.rows[i].date].TAW # mdl.odata[rzdata.rows[i].date].RAW

\* C8 as claimed: every row of rzdata on a date with TAW # RAW has ObsKs
\* equal to (TAW - Dr) / (TAW - RAW) of that date clamped into [0, 1].
C8_ObsKsClamped ==
    Returned => \A i \in RzIdx : DistinctBounds(i) => ClampedKs(i)

\* C8 as amended: the same for the rows whose SWDr is a number.
C8_ObsKsClampedNumber ==
    Returned =>
        \A i \in RzIdx :
            (DistinctBounds(i) /\ IsNum(rzdata.rows[i].SWDr)) => ClampedKs(i)

\* C8 witness: two rows with different TAW and RAW, one with ObsKs strictly
\* between 0 and 1 and one clamped to 0.
C8_Witness ==
    /\ Returned
    /\ \E i, j \in RzIdx :
          /\ DistinctBounds(i) /\ DistinctBounds(j)
          /\ mdl.odata[rzdata.rows[i].date] # mdl.odata[rzdata.rows[j].date]
          /\ IsNum(rzdata.rows[i].SWDr) /\ IsNum(rzdata.rows[j].SWDr)
          /\ 0 < rzdata.rows[i].ObsKs.n
          /\ rzdata.rows[i].ObsKs.n < rzdata.rows[i].ObsKs.d
          /\ rzdata.rows[j].SWDr > mdl.odata[rzdata.rows[j].date].TAW
          /\ rzdata.rows[j].ObsKs = Q0

\* C9 as claimed: compute_root_zone_swd does not return normally with a row
\* for a date whose TAW equals its RAW.
C9_EqualBoundsFail ==
    ~ (Returned /\ \E i \in RzIdx : ~ DistinctBounds(i))

\* No layer's bottom depth (cm) reaches rmax, the whole centimeters of Zrmax
\* (mm): r < rmax, that is 10 * (r + 1) <= Zrmax.
NotCovered(df, m) == \A r \in Range(df.rows) : r * 10 + 9 < m.Zrmax

\* C10: a compute_root_zone_swd call on a deficit series with at least one
\* date and no layer bottom at or below rmax raises an error (the IndexError
\* of the layer lookup, or the error of the unassigned Zr when the first date
\* has no root depth), and rzdata stays as it was.
C10_UncoveredDepthFails ==
    [][ ( /\ op' = "compute_root_zone_swd"
          /\ Len(swddata'.cols) >= 1
          /\ NotCovered(swddata', mdl') )
        => ( /\ err' \in {"IndexError", "UnboundLocalError"}
             /\ InOdata(mdl', swddata'.cols[1]) => err' = "IndexError"
             /\ rzdata' = rzdata ) ]_vars

\* C10 witness: a call on a series with dates whose layers end above rmax
\* raised the IndexError.
C10_Witness ==
    /\ op = "compute_root_zone_swd"
    /\ Len(swddata.cols) >= 1
    /\ swddata.rows # <<>>
    /\ NotCovered(swddata, mdl)
    /\ err = "IndexError"

---------------------------------------------------------------------------
\* Rows and dates of compute_root_zone_swd.

\* C11 as claimed: rzdata has one row for every date column of the deficit
\* series, in the order of the date columns.
C11_OneRowPerDate ==
    Returned =>
        /\ Len(rzdata.rows) = Len(swddata.cols)
        /\ \A i \in RzIdx : rzdata.rows[i].date = swddata.cols[i]

\* The dates of the deficit series that the root-depth series does not have.
AbsentDates == {d \in Range(swddata.cols) : ~ InOdata(mdl, d)}

\* C12 as claimed: a date of the deficit series that the root-depth series
\* does not have is swept all the same (the call does not stop on the
\* unassigned Zr), and the Dr accumulated for it is 0, wherever the date
\* stands among the others.
C12_AbsentDateAddsNoDr ==
    (op = "compute_root_zone_swd" /\ AbsentDates # {}) =>
        /\ err # "UnboundLocalError"
        /\ \A d \in AbsentDates \cap DOMAIN locals.SWDr : locals.SWDr[d] = 0

\* The deficit series with the date d alone.
OnlyDate(df, d) ==
    [cols |-> <<d>>, rows |-> df.rows, val |-> [c \in {d} |-> df.val[c]]]

\* The run on the date d alone, same layers, same model.
Alone(d) == DateLoop(1, OnlyDate(swddata, d), mdl, Unbound, <<>>, <<>>)

\* The last call raised in the sweep of the date d: d is the first date
\* without an entry in the dicts.
FailedOn(d) ==
    /\ err # "none"
    /\ \E i \in 1..Len(swddata.cols) :
          /\ swddata.cols[i] = d
          /\ d \notin DOMAIN locals.SWDr
          /\ \A j \in 1..(i - 1) : swddata.cols[j] \in DOMAIN locals.SWDr

\* C13 as claimed: the outcome of a call for a date d is the outcome of the
\* run on d alone: the same Dr and Drmax, and the call raised on d exactly
\* when the run on d alone raises.
C13_NoCrossDateState ==
    op = "compute_root_zone_swd" =>
        \A d \in Range(swddata.cols) :
            /\ d \in DOMAIN locals.SWDr =>
                  /\ Alone(d).err = "none"
                  /\ Alone(d).SWDr[d] = locals.SWDr[d]
                  /\ Alone(d).SWDrmax[d] = locals.SWDrmax[d]
            /\ FailedOn(d) => Alone(d).err # "none"

---------------------------------------------------------------------------
\* Properties of SoilWater and of the files (specification SpecIO).

\* C14 as claimed: SoilWater(...) without a filepath and with one of the five
\* lists missing (the case in which the constructor prints its usage) raises,
\* and does not leave an object without its soil_water_profile.
C14_MissingInputFails ==
    (op = "SoilWater" /\ printed = Usage) =>
        /\ err # "none"
        /\ swater.made => swater.has_profile

\* The object is as the constructor built it from lists.
BuiltFromLists ==
    /\ op = "SoilWater" /\ err = "none" /\ printed = ""
    /\ \A i \in DOMAIN swater.index : swater.index[i].type = "float"

\* C15 as claimed: a profile that construction from lists completed has
\* Lr_Strt of every layer after the first equal to Lr_End of the layer before
\* it, and Lr_End above Lr_Strt in every layer.
C15_ProfileContiguous ==
    BuiltFromLists =>
        /\ \A i \in 1..(Len(swater.rows) - 1) :
              swater.rows[i + 1][1] = swater.rows[i][2]
        /\ \A i \in DOMAIN swater.rows : swater.rows[i][2] > swater.rows[i][1]

\* The frame df is the frame that was saved at the path p, and saving it
\* gives the text that is at p.
SameAsSaved(df, p) ==
    /\ err = "none"
    /\ df.rows = written[p].rows
    /\ df.cols = written[p].cols
    /\ \A x \in Cells(written[p]) : df.val[x[1]][x[2]] = written[p].val[x[1]][x[2]]
    /\ FrameStr(df) = fs[p]

\* C16 as claimed: loadfile of the file that savefile wrote, for the content
\* series and for the deficit series, gives the depth rows, the date columns
\* in their order and the values of the series that was saved, and saving
\* the loaded series gives the same text.
C16_FrameRoundTrip ==
    /\ (op = "swc.loadfile" /\ fs[SwcPath].exists) => SameAsSaved(swcdata, SwcPath)
    /\ (op = "swd.loadfile" /\ fs[SwdPath].exists) => SameAsSaved(swddata, SwdPath)

\* A value in millionths rounded to 5 decimals.
Round5(v) == RoundDiv(v, 1) * 10

Rounded5(list) == [i \in DOMAIN list |-> Round5(list[i])]

\* The object o has a profile built from lists: its index is of floats.
OfLists(o) ==
    /\ o.made /\ o.has_profile /\ o.has_lists
    /\ \A i \in DOMAIN o.index : o.index[i].type = "float"

\* C17 as claimed: loadfile of the file that savefile wrote for a profile
\* built from lists gives the depth index as float meters, the nine columns
\* with the values equal to 5 decimals, the attributes depths, theta_fc,
\* theta_ini and theta_wp of the original, and the same text when saved.
C17_ProfileRoundTrip ==
    (op = "sw.loadfile" /\ fs[SwPath].exists /\ OfLists(written[SwPath])) =>
        /\ err = "none"
        /\ swater.index = written[SwPath].index
        /\ swater.rows = [i \in DOMAIN written[SwPath].rows |->
                             Rounded5(written[SwPath].rows[i])]
        /\ swater.depths = written[SwPath].depths
        /\ swater.theta_fc = Rounded5(written[SwPath].theta_fc)
        /\ swater.theta_ini = Rounded5(written[SwPath].theta_ini)
        /\ swater.theta_wp = Rounded5(written[SwPath].theta_wp)
        /\ ProfileStr(swater) = fs[SwPath]

\* C18 as claimed: a loadfile, or a construction with a filepath, on a path
\* without a file raises a file-not-found error.
C18_MissingFileRaises ==
    printed \in {SwNotFound, SwcNotFound, SwdNotFound} =>
        err = "FileNotFoundError"

---------------------------------------------------------------------------
\* More properties of compute_root_zone_swd.

\* C19: after a compute_root_zone_swd call that returned, whatever calls came
\* before it, rzdata is what one call with the same model on the current
\* swddata gives on a new object, and every row is for a date both of
\* swddata and of that model.
C19_RootZoneFreshEveryCall ==
    Returned =>
        /\ rzdata = RootZone(swddata, mdl, None).rzdata
        /\ \A i \in RzIdx : /\ rzdata.rows[i].date \in Range(swddata.cols)
                            /\ InOdata(mdl, rzdata.rows[i].date)

\* C19 witness: the call returned on an object whose rzdata, from an earlier
\* call, had a row for a date that the new rzdata has no row for.
C19_Witness ==
    /\ Returned
    /\ \E i \in DOMAIN rzbefore :
          \A j \in RzIdx : rzdata.rows[j].date # rzbefore[i]

\* The bottom depths S as a list, shallowest first.
RECURSIVE Ascending(_)
Ascending(S) ==
    IF S = {} THEN <<>> ELSE <<MinOf(S)>> \o Ascending(S \ {MinOf(S)})

\* C20 as claimed: every centimeter is attributed to the layer with the
\* smallest bottom depth that is at least the centimeter, in whatever order
\* the rows of the deficit series are: SWDrmax and SWDr are the sums so
\* attributed.
C20_ShallowestLayerOwns ==
    Returned =>
        \A i \in RzIdx :
            LET row == rzdata.rows[i]
                col == swddata.val[row.date]
                byDepth == Ascending(Range(swddata.rows))
            IN  /\ row.SWDrmax = SumOfCm(byDepth, col, AllCm)
                /\ row.SWDr = SumOfCm(byDepth, col, RootCm(row.Zr))

\* The centimeters cm <= round(Zr * 100), Zr in millimeters here.
RoundedRootCm(Zr) == {cm \in AllCm : cm <= RoundDiv(Zr, 1)}

\* C21 as claimed: a centimeter adds to Dr exactly when it is at most the
\* root depth rounded to the nearest whole centimeter: SWDr of every row is
\* the sum over those centimeters (Zr = 0.206 m takes in centimeter 21).
C21_ZrRoundedToCm ==
    Returned =>
        \A i \in RzIdx :
            rzdata.rows[i].SWDr
                = SumOfCm(swddata.rows, swddata.val[rzdata.rows[i].date],
                          RoundedRootCm(rzdata.rows[i].Zr))

---------------------------------------------------------------------------
\* More properties of SoilWater.

\* x is y rounded to 3 decimals (both in millionths): a whole number of
\* thousandths, and no other one is nearer to y.
Rounded3(x, y) ==
    /\ x % 1000 = 0
    /\ 2 * (x - y) <= 1000
    /\ 2 * (y - x) <= 1000

\* 1000 times a length in millionths of a meter: the length in thousandths
\* of a millimeter, as a whole number of millimeters when it has 3 decimals.
Mm(x) == x \div 1000

\* C22: in every layer of a profile built from lists, Lr_Thck is Lr_End -
\* Lr_Strt rounded to 3 decimals, and FC_mm, IN_mm and WP_mm are thetaFC,
\* thetaIN and thetaWP times 1000 times Lr_Thck; thetaFC 0.20 with a
\* thickness of 0.30 m gives FC_mm 60.0.
C22_ThicknessAndMm ==
    BuiltFromLists =>
        \A i \in DOMAIN swater.rows :
            LET row == swater.rows[i]
            IN  /\ Rounded3(row[3], row[2] - row[1])
                /\ row[7] = row[4] * Mm(row[3])
                /\ row[8] = row[5] * Mm(row[3])
                /\ row[9] = row[6] * Mm(row[3])
                /\ (row[4] = 200000 /\ row[3] = 300000) => row[7] = 60000000

\* C22 witness: a profile built from lists with a layer of thetaFC 0.20 and
\* thickness 0.30 m, FC_mm 60.0, and a layer whose thickness is not Lr_End -
\* Lr_Strt as it is.
C22_Witness ==
    /\ BuiltFromLists
    /\ \E i \in DOMAIN swater.rows :
          /\ swater.rows[i][4] = 200000
          /\ swater.rows[i][3] = 300000
          /\ swater.rows[i][7] = 60000000
    /\ \E i \in DOMAIN swater.rows :
          swater.rows[i][3] # swater.rows[i][2] - swater.rows[i][1]

\* The five lists of the call are not all of one length.
LengthsDisagree(a) ==
    \/ Len(a.theta_fc.v) # Len(a.depths.v)
    \/ Len(a.theta_ini.v) # Len(a.depths.v)
    \/ Len(a.theta_wp.v) # Len(a.depths.v)
    \/ Len(a.layer_boundaries.v) # Len(a.depths.v)

\* C23 as claimed: a construction from lists whose lengths disagree raises an
\* error, so that no profile is built from the first entries of a longer
\* list.
C23_LengthsMustAgree ==
    (/\ op = "SoilWater"
     /\ ~args.filepath
     /\ AllGiven(args)
     /\ LengthsDisagree(args)) => err # "none"

---------------------------------------------------------------------------
\* What the operations of swc and swd leave alone.

\* C24: a loadfile of the content series or of the deficit series on a path
\* that cannot be opened leaves swcdata, swddata and rzdata as they were
\* before the call.
C24_FailedLoadKeepsState ==
    [][ ( /\ op' \in {"loadfile", "swc.loadfile"}
          /\ printed' \in {SwdNotFound, SwcNotFound} )
        => ( /\ swcdata' = swcdata
             /\ swddata' = swddata
             /\ rzdata' = rzdata ) ]_vars

\* C24 witness: swd.loadfile printed that the path is not found on an object
\* that had a deficit series and a root-zone frame with rows.
C24_Witness ==
    /\ op = "loadfile"
    /\ printed = SwdNotFound
    /\ swddata.rows # <<>>
    /\ ~rzdata.isNone
    /\ rzdata.rows # <<>>

\* C25: a compute_root_zone_swd call leaves swddata as it was; when it
\* raises, rzdata is what it was before the call (None, or the frame of the
\* call before it), and when it returns rzdata is a frame.
C25_RootZoneFrame ==
    [][ op' = "compute_root_zone_swd"
        => ( /\ swddata' = swddata
             /\ err' # "none" => rzdata' = rzdata
             /\ err' = "none" => ~rzdata'.isNone ) ]_vars

\* C25 witness: a call raised on an object whose rzdata, from a call that
\* returned, has rows.
C25_Witness ==
    /\ op = "compute_root_zone_swd"
    /\ err # "none"
    /\ ~rzdata.isNone
    /\ rzdata.rows # <<>>

====
